---------------------------- MODULE Spec2Model ----------------------------
(***************************************************************************)
(* Live Chat Room server (p1gxS.c, protocol.h).                            *)
(*                                                                         *)
(* Threads: main (accept loop and teardown), one handle_client thread per  *)
(* accepted connection, one broadcast_thread.  Shared state: the clients   *)
(* array with client_count under clients_mutex, msg_queue under            *)
(* queue_mutex / queue_cond, and the flag server_running.                  *)
(*                                                                         *)
(* Strings are sequences of one-character strings, so that parse_message   *)
(* and the format_* helpers are computed as the C code computes them.      *)
(***************************************************************************)
EXTENDS Integers, Sequences, FiniteSets, TLC

(***************************************************************************)
(* Configuration constants (protocol.h).  MAX_CLIENTS and QUEUE_SIZE are   *)
(* scaled down from 50 and 100 so that the full registry and the full      *)
(* queue are reachable.                                                    *)
(***************************************************************************)
MAX_USERNAME == 32
MAX_MESSAGE == 256
BUFFER_SIZE == 1024
TYPE_SIZE == 16
MAX_CLIENTS == 2
QUEUE_SIZE == 2

(* Number of connections the clients open during one run. *)
NumConn == 3
(* Number of chat frames the talkative client of a scenario sends. *)
ChatBurst == 2
(* Calls made on the queue, or on the registry, taken alone. *)
MaxOps == 5

Min(a, b) == IF a < b THEN a ELSE b

(* strncpy(dst, src, n) into a zeroed buffer of n+1 bytes. *)
Take(s, n) == SubSeq(s, 1, Min(n, Len(s)))

(***************************************************************************)
(* Protocol words (protocol.h, message types and response codes).          *)
(***************************************************************************)
NL == "\n"
MSG_TYPE_AUTH == <<"A", "U", "T", "H">>
MSG_TYPE_MESSAGE == <<"M", "S", "G">>
MSG_TYPE_NOTIFY == <<"N", "O", "T", "I", "F", "Y">>
MSG_TYPE_ERROR == <<"E", "R", "R", "O", "R">>
MSG_TYPE_DISCONNECT == <<"D", "I", "S", "C", "O", "N", "N", "E", "C", "T">>

AUTH_OK == <<"A", "U", "T", "H", "_", "O", "K">>
AUTH_FAILED == <<"A", "U", "T", "H", "_", "F", "A", "I", "L", "E", "D", ":",
                 "U", "s", "e", "r", "n", "a", "m", "e", " ",
                 "a", "l", "r", "e", "a", "d", "y", " ", "t", "a", "k", "e", "n">>
AUTH_FAILED_INVALID == <<"A", "U", "T", "H", "_", "F", "A", "I", "L", "E", "D", ":",
                         "I", "n", "v", "a", "l", "i", "d", " ",
                         "u", "s", "e", "r", "n", "a", "m", "e">>
SERVER_FULL == <<"E", "R", "R", "O", "R", ":", "S", "e", "r", "v", "e", "r", " ",
                 "i", "s", " ", "f", "u", "l", "l">>
DISCONNECT_ACK == <<"D", "I", "S", "C", "O", "N", "N", "E", "C", "T", "_", "A", "C", "K">>

INVALID_AUTH_FORMAT == <<"I", "n", "v", "a", "l", "i", "d", " ",
                         "a", "u", "t", "h", "e", "n", "t", "i", "c", "a", "t", "i", "o", "n", " ",
                         "f", "o", "r", "m", "a", "t">>
JOINED == <<" ", "j", "o", "i", "n", "e", "d", " ", "t", "h", "e", " ", "c", "h", "a", "t">>
LEFT == <<" ", "l", "e", "f", "t", " ", "t", "h", "e", " ", "c", "h", "a", "t">>

(***************************************************************************)
(* format_* helpers: snprintf(buffer, BUFFER_SIZE, ...) keeps at most      *)
(* BUFFER_SIZE - 1 characters.                                             *)
(***************************************************************************)
format_chat_message(sender, content) ==
    Take(MSG_TYPE_MESSAGE \o <<":">> \o sender \o <<":">> \o content \o <<NL>>,
         BUFFER_SIZE - 1)

format_notification(notification) ==
    Take(MSG_TYPE_NOTIFY \o <<":">> \o notification \o <<NL>>, BUFFER_SIZE - 1)

format_error_message(error) ==
    Take(MSG_TYPE_ERROR \o <<":">> \o error \o <<NL>>, BUFFER_SIZE - 1)

(* strcpy(response, CODE); strcat(response, "\n") *)
Line(code) == code \o <<NL>>

(***************************************************************************)
(* strtok, as parse_message uses it.  A tokenizer result is                *)
(* [null, tok, rest]: null when strtok returns NULL, rest is the text the  *)
(* next call starts from.                                                  *)
(***************************************************************************)
RECURSIVE SkipColons(_)
SkipColons(s) ==
    IF s # <<>> /\ Head(s) = ":" THEN SkipColons(Tail(s)) ELSE s

RECURSIVE TokLen(_)
TokLen(s) ==
    IF s = <<>> \/ Head(s) = ":" THEN 0 ELSE 1 + TokLen(Tail(s))

(* strtok(.., ":"): skip leading delimiters, cut at the next one. *)
StrTokColon(s) ==
    LET t == SkipColons(s)
        n == TokLen(t)
    IN  IF t = <<>>
        THEN [null |-> TRUE, tok |-> <<>>, rest |-> <<>>]
        ELSE [null |-> FALSE,
              tok |-> SubSeq(t, 1, n),
              rest |-> SubSeq(t, n + 2, Len(t))]

(* strtok(NULL, ""): the whole remaining text, NULL when nothing remains. *)
StrTokRest(s) ==
    IF s = <<>>
    THEN [null |-> TRUE, tok |-> <<>>, rest |-> <<>>]
    ELSE [null |-> FALSE, tok |-> s, rest |-> <<>>]

ZeroMessage == [type |-> <<>>, sender |-> <<>>, content |-> <<>>]

(***************************************************************************)
(* parse_message: [rc, msg] with rc = 0 on success and -1 on error.  The   *)
(* message is cleared first, so the fields already filled stay filled on   *)
(* an error return.                                                        *)
(***************************************************************************)
parse_message(raw_message) ==
    LET b0 == Take(raw_message, BUFFER_SIZE - 1)
        buffer == IF Len(b0) > 0 /\ b0[Len(b0)] = NL
                  THEN SubSeq(b0, 1, Len(b0) - 1) ELSE b0
        t1 == StrTokColon(buffer)
        type == Take(t1.tok, TYPE_SIZE - 1)
        t2 == StrTokColon(t1.rest)
        r2 == StrTokRest(t1.rest)
        r3 == StrTokRest(t2.rest)
        m1 == [ZeroMessage EXCEPT !.type = type]
        m2 == [m1 EXCEPT !.sender = Take(t2.tok, MAX_USERNAME - 1)]
    IN  IF t1.null THEN [rc |-> -1, msg |-> ZeroMessage]
        ELSE IF type = MSG_TYPE_AUTH \/ type = MSG_TYPE_DISCONNECT
        THEN IF t2.null THEN [rc |-> -1, msg |-> m1] ELSE [rc |-> 0, msg |-> m2]
        ELSE IF type = MSG_TYPE_MESSAGE
        THEN IF t2.null THEN [rc |-> -1, msg |-> m1]
             ELSE IF r3.null THEN [rc |-> -1, msg |-> m2]
             ELSE [rc |-> 0,
                   msg |-> [m2 EXCEPT !.content = Take(r3.tok, MAX_MESSAGE - 1)]]
        ELSE IF type = MSG_TYPE_NOTIFY \/ type = MSG_TYPE_ERROR
        THEN IF r2.null THEN [rc |-> -1, msg |-> m1]
             ELSE [rc |-> 0,
                   msg |-> [m1 EXCEPT !.content = Take(r2.tok, MAX_MESSAGE - 1)]]
        ELSE [rc |-> 0, msg |-> m1]

(***************************************************************************)
(* validate_username                                                       *)
(***************************************************************************)
UsernameChars ==
    {"a", "b", "c", "d", "e", "f", "g", "h", "i", "j", "k", "l", "m",
     "n", "o", "p", "q", "r", "s", "t", "u", "v", "w", "x", "y", "z",
     "A", "B", "C", "D", "E", "F", "G", "H", "I", "J", "K", "L", "M",
     "N", "O", "P", "Q", "R", "S", "T", "U", "V", "W", "X", "Y", "Z",
     "0", "1", "2", "3", "4", "5", "6", "7", "8", "9", "_"}

validate_username(username) ==
    /\ Len(username) # 0
    /\ Len(username) < MAX_USERNAME
    /\ \A i \in 1..Len(username) : username[i] \in UsernameChars


(***************************************************************************)
(* Message queue (protocol.h): circular buffer with head, tail, count.     *)
(***************************************************************************)
QSlots == 0..(QUEUE_SIZE - 1)

(* msg_queue is a global, so its buffer starts zeroed; init_message_queue *)
(* sets the three indices.                                                *)
init_message_queue ==
    [messages |-> [i \in QSlots |-> ZeroMessage], head |-> 0, tail |-> 0, count |-> 0]

is_queue_empty(queue) == queue.count = 0

(* Variant: the bound compared one too high. *)
is_queue_full_late(queue) == queue.count > QUEUE_SIZE

is_queue_full(queue) == queue.count >= QUEUE_SIZE

(* Variant: head runs on past the end of the buffer. *)
enqueue_message_unwrapped(queue, msg) ==
    IF is_queue_full(queue)
    THEN [rc |-> -1, queue |-> queue]
    ELSE [rc |-> 0,
          queue |-> [messages |-> [queue.messages EXCEPT ![queue.head % QUEUE_SIZE] = msg],
                     head |-> queue.head + 1,
                     tail |-> queue.tail,
                     count |-> queue.count + 1]]

(* Variant: a full queue gives up its oldest message for the new one. *)
enqueue_message_overwriting(queue, msg) ==
    [rc |-> 0,
     queue |-> [messages |-> [queue.messages EXCEPT ![queue.head] = msg],
                head |-> (queue.head + 1) % QUEUE_SIZE,
                tail |-> IF queue.count >= QUEUE_SIZE
                         THEN (queue.tail + 1) % QUEUE_SIZE ELSE queue.tail,
                count |-> IF queue.count >= QUEUE_SIZE
                          THEN queue.count ELSE queue.count + 1]]

(* [rc, queue]: rc = 0 and the message stored, or rc = -1 and the queue as it was. *)
enqueue_message(queue, msg) ==
    IF is_queue_full(queue)
    THEN [rc |-> -1, queue |-> queue]
    ELSE [rc |-> 0,
          queue |-> [messages |-> [queue.messages EXCEPT ![queue.head] = msg],
                     head |-> (queue.head + 1) % QUEUE_SIZE,
                     tail |-> queue.tail,
                     count |-> queue.count + 1]]

(* Variant: the newest message is taken instead of the oldest. *)
dequeue_message_newest(queue) ==
    IF queue.count = 0
    THEN [rc |-> -1, queue |-> queue, msg |-> ZeroMessage]
    ELSE [rc |-> 0,
          queue |-> [messages |-> queue.messages,
                     head |-> (queue.head + QUEUE_SIZE - 1) % QUEUE_SIZE,
                     tail |-> queue.tail,
                     count |-> queue.count - 1],
          msg |-> queue.messages[(queue.head + QUEUE_SIZE - 1) % QUEUE_SIZE]]

(* [rc, queue, msg]: rc = 0 and the oldest message, or rc = -1 when empty. *)
dequeue_message(queue) ==
    IF is_queue_empty(queue)
    THEN [rc |-> -1, queue |-> queue, msg |-> ZeroMessage]
    ELSE [rc |-> 0,
          queue |-> [messages |-> queue.messages,
                     head |-> queue.head,
                     tail |-> (queue.tail + 1) % QUEUE_SIZE,
                     count |-> queue.count - 1],
          msg |-> queue.messages[queue.tail]]

(***************************************************************************)
(* Client registry (p1gxS.c): clients[MAX_CLIENTS] and client_count, as a  *)
(* record [clients, client_count].  Slots at and beyond client_count keep  *)
(* whatever was last written to them.                                      *)
(***************************************************************************)
CSlots == 0..(MAX_CLIENTS - 1)

ZeroClient == [socket_fd |-> 0, username |-> <<>>, authenticated |-> 0]

(* Variant: no capacity check. *)
add_client_unchecked(reg, socket_fd, name) ==
    [rc |-> 0,
     reg |-> [clients |-> [i \in CSlots |->
                              IF i = reg.client_count
                              THEN [socket_fd |-> socket_fd,
                                    username |-> Take(name, MAX_USERNAME - 1),
                                    authenticated |-> 1]
                              ELSE reg.clients[i]],
              client_count |-> reg.client_count + 1]]

(* Variant: the capacity compared one too high. *)
add_client_late(reg, socket_fd, name) ==
    IF reg.client_count > MAX_CLIENTS
    THEN [rc |-> -1, reg |-> reg]
    ELSE [rc |-> 0,
          reg |-> [clients |-> [i \in CSlots |->
                                   IF i = reg.client_count
                                   THEN [socket_fd |-> socket_fd,
                                         username |-> Take(name, MAX_USERNAME - 1),
                                         authenticated |-> 1]
                                   ELSE reg.clients[i]],
                   client_count |-> reg.client_count + 1]]

(* The body of add_client between lock and unlock: [rc, reg]. *)
add_client(reg, socket_fd, name) ==
    IF reg.client_count >= MAX_CLIENTS
    THEN [rc |-> -1, reg |-> reg]
    ELSE [rc |-> 0,
          reg |-> [clients |-> [reg.clients EXCEPT ![reg.client_count] =
                                   [socket_fd |-> socket_fd,
                                    username |-> Take(name, MAX_USERNAME - 1),
                                    authenticated |-> 1]],
                   client_count |-> reg.client_count + 1]]

(* Index of the first entry whose socket_fd matches, or client_count. *)
FindClient(reg, socket_fd) ==
    LET hits == {i \in 0..(reg.client_count - 1) : reg.clients[i].socket_fd = socket_fd}
    IN  IF hits = {} THEN reg.client_count
        ELSE CHOOSE i \in hits : \A k \in hits : i <= k

(* Variant: the count is decremented without the shift. *)
remove_client_unshifted(reg, socket_fd) ==
    LET i == FindClient(reg, socket_fd)
    IN  IF i >= reg.client_count
        THEN reg
        ELSE [clients |-> reg.clients, client_count |-> reg.client_count - 1]

(* Variant: the count is decremented whether or not an entry matched. *)
remove_client_always(reg, socket_fd) ==
    LET i == FindClient(reg, socket_fd)
    IN  IF reg.client_count = 0
        THEN reg
        ELSE [clients |-> [j \in CSlots |->
                              IF j >= i /\ j < reg.client_count - 1
                              THEN reg.clients[j + 1] ELSE reg.clients[j]],
              client_count |-> reg.client_count - 1]

(* The body of remove_client: shift the later entries down, decrement. *)
remove_client(reg, socket_fd) ==
    LET i == FindClient(reg, socket_fd)
    IN  IF i >= reg.client_count
        THEN reg
        ELSE [clients |-> [j \in CSlots |->
                              IF j >= i /\ j < reg.client_count - 1
                              THEN reg.clients[j + 1] ELSE reg.clients[j]],
              client_count |-> reg.client_count - 1]

(* Variant: every name is reported as free. *)
username_exists_never(reg, name) == FALSE

(* The body of username_exists. *)
username_exists(reg, name) ==
    \E i \in 0..(reg.client_count - 1) : reg.clients[i].username = name


(***************************************************************************)
(* Inputs: the frames clients send.  A connection is identified by its     *)
(* socket descriptor, 1..NumConn.                                          *)
(***************************************************************************)
Conns == 1..NumConn

alice == <<"a", "l", "i", "c", "e">>
bob == <<"b", "o", "b">>
hi == <<"h", "i">>
yo == <<"y", "o">>

AuthFrame(name) == MSG_TYPE_AUTH \o <<":">> \o name \o <<NL>>
ChatFrame(name, text) == MSG_TYPE_MESSAGE \o <<":">> \o name \o <<":">> \o text \o <<NL>>
DisconnectFrame(name) == MSG_TYPE_DISCONNECT \o <<":">> \o name \o <<NL>>

carol == <<"c", "a", "r", "o", "l">>
Names == <<alice, bob, carol>>
NameOf(c) == Names[((c - 1) % Len(Names)) + 1]
TextOf(k) == IF k % 2 = 1 THEN hi ELSE yo

(***************************************************************************)
(* A scenario is what the environment does during one run: how many        *)
(* clients connect, the script of each (the frames it sends, one per read  *)
(* of the server, before it hangs up), and whether SIGINT is delivered.    *)
(***************************************************************************)

(* Two names among all the clients: the odd ones ask for the first name, *)
(* the even ones for the second; each hangs up after its handshake.      *)
SharedNames ==
    [nconn |-> NumConn, sigint |-> FALSE,
     script |-> [c \in Conns |-> <<AuthFrame(IF c % 2 = 1 THEN alice ELSE bob)>>]]

(* Every client asks for a name of its own and hangs up. *)
OwnNames ==
    [nconn |-> NumConn, sigint |-> FALSE,
     script |-> [c \in Conns |-> <<AuthFrame(NameOf(c))>>]]

(* The first client sends a burst of chat frames; the second one sends a   *)
(* frame under the first one's name and leaves with DISCONNECT.            *)
Chat ==
    [nconn |-> 2, sigint |-> FALSE,
     script |-> [c \in Conns |->
        IF c = 1
        THEN <<AuthFrame(alice)>> \o [k \in 1..ChatBurst |-> ChatFrame(alice, TextOf(k))]
        ELSE <<AuthFrame(bob), ChatFrame(alice, yo), DisconnectFrame(bob)>>]]

(* Frames the server has to refuse or ignore, with the server shut down at *)
(* any moment.                                                             *)
Malformed ==
    [nconn |-> NumConn, sigint |-> TRUE,
     script |-> [c \in Conns |->
        IF c = 1 THEN <<ChatFrame(alice, hi)>>
        ELSE IF c = 2 THEN <<AuthFrame(<<"a", "@", "b">>)>>
        ELSE <<AuthFrame(alice), MSG_TYPE_MESSAGE \o <<":">> \o alice \o <<NL>>,
               ChatFrame(<<>>, yo),
               <<"P", "I", "N", "G", NL>>, AuthFrame(bob), DisconnectFrame(alice)>>]]

(* Two clients, one of which talks, with the server shut down at any moment. *)
Shutdown ==
    [nconn |-> 2, sigint |-> TRUE,
     script |-> [c \in Conns |->
        IF c = 1 THEN <<AuthFrame(alice), ChatFrame(alice, hi)>>
        ELSE <<AuthFrame(bob)>>]]

Scenarios == {SharedNames, OwnNames, Chat, Malformed, Shutdown}

(***************************************************************************)
(* State.                                                                  *)
(***************************************************************************)
VARIABLES
    server_running,   \* volatile int server_running
    clients,          \* client_info_t clients[MAX_CLIENTS]
    client_count,     \* int client_count
    msg_queue,        \* message_queue_t msg_queue
    clients_mutex,    \* thread holding clients_mutex, or FreeM
    queue_mutex,      \* thread holding queue_mutex, or FreeM
    wake,             \* queue_cond: a signal is pending for the sleeping waiter
    destroyed,        \* [c, q]: the mutex has been destroyed by main
    exited,           \* main has returned: the process is gone
    mpc,              \* main: position in the accept loop / teardown
    pc,               \* handle_client: position, per connection
    username,         \* handle_client: local username
    hmsg,             \* handle_client: local auth_msg / msg
    ni,               \* broadcast_notification: loop index i
    scn,              \* the scenario of this run
    nframes,          \* frames read so far, per connection
    sock,             \* server side of each socket: "none", "open", "closed",
                      \* or "reset": open, the peer gone and written to since
    out,              \* the frames written to each connection
    bpc,              \* broadcast_thread: position
    bmsg,             \* broadcast_thread: local msg
    bi,               \* broadcast_thread: loop index i
    bsnap,            \* descriptors registered when the fan-out took the lock
    bsent,            \* descriptors written to during the current fan-out
    enqLog,           \* messages enqueued, in order, each with its connection
    ndeq,             \* number of messages dequeued
    ndrop,            \* number of messages dropped on a full queue
    probe             \* scratch of the pure-function specifications

vars == <<server_running, clients, client_count, msg_queue, clients_mutex,
          queue_mutex, wake, destroyed, exited, mpc, pc, username, hmsg, ni,
          scn, nframes, sock, out, bpc, bmsg, bi, bsnap, bsent, enqLog, ndeq,
          ndrop, probe>>

FreeM == <<"free">>
MainT == <<"main">>
BcastT == <<"bcast">>
HandlerT(c) == <<"handler", c>>

Reg == [clients |-> clients, client_count |-> client_count]

Registered == {clients[i].socket_fd : i \in 0..(client_count - 1)}

InitServer ==
    /\ server_running = TRUE
    /\ clients = [i \in CSlots |-> ZeroClient]
    /\ client_count = 0
    /\ msg_queue = init_message_queue
    /\ clients_mutex = FreeM
    /\ queue_mutex = FreeM
    /\ wake = FALSE
    /\ destroyed = [c |-> FALSE, q |-> FALSE]
    /\ exited = FALSE
    /\ mpc = "loop_top"
    /\ pc = [c \in Conns |-> "unborn"]
    /\ username = [c \in Conns |-> <<>>]
    /\ hmsg = [c \in Conns |-> ZeroMessage]
    /\ ni = [c \in Conns |-> 0]
    /\ nframes = [c \in Conns |-> 0]
    /\ sock = [c \in Conns |-> "none"]
    /\ out = [c \in Conns |-> {}]
    /\ bpc = "top"
    /\ bmsg = ZeroMessage
    /\ bi = 0
    /\ bsnap = {}
    /\ bsent = {}
    /\ enqLog = <<>>
    /\ ndeq = 0
    /\ ndrop = 0

Init ==
    /\ InitServer
    /\ scn \in Scenarios
    /\ probe = <<>>

(***************************************************************************)
(* Mutexes.  A critical section that only touches memory is one step, and  *)
(* needs the mutex free.  A section that spans writes to sockets holds the *)
(* mutex across steps.  Using a mutex that main has destroyed is undefined *)
(* behaviour: the call either behaves as on a live mutex or returns an     *)
(* error without locking, and the caller (which never checks the result)   *)
(* goes on without mutual exclusion.                                       *)
(***************************************************************************)
CanEnter(m, dead) == m = FreeM \/ dead

Locked(m, dead, self, m2) ==
    \/ m = FreeM /\ m2 = self
    \/ dead /\ m2 = m

Unlocked(m, self) == IF m = self THEN FreeM ELSE m

(* send(fd, frame): the frame reaches the connection while fd is open. *)
Sent(o, fd, frame) ==
    IF fd \in Conns /\ sock[fd] \in {"open", "reset"}
    THEN [o EXCEPT ![fd] = @ \cup {frame}]
    ELSE o

(* Variant: the signal wakes nobody. *)
Signalled_lost == wake

(* pthread_cond_signal(&queue_cond) *)
Signalled == IF bpc = "sleeping" THEN TRUE ELSE wake


regVars == <<clients, client_count>>
mutexVars == <<clients_mutex, queue_mutex, destroyed>>
bcastVars == <<bpc, bmsg, bi, bsnap, bsent>>
logVars == <<enqLog, ndeq, ndrop>>
inputVars == <<scn, nframes>>

(* read(client_socket, ...): the client's next frame, or nothing once it has *)
(* hung up.                                                                 *)
HasInput(c) == nframes[c] < Len(scn.script[c])
Input(c) == scn.script[c][nframes[c] + 1]

(* The socket after a send on it.  A client closes its end once it has    *)
(* sent its last frame; the first send that follows still succeeds and    *)
(* is answered by a reset.                                                *)
AfterSend(sk, fd) ==
    IF fd \in Conns /\ sk[fd] = "open" /\ ~HasInput(fd)
    THEN [sk EXCEPT ![fd] = "reset"]
    ELSE sk

(***************************************************************************)
(* handle_client                                                           *)
(***************************************************************************)

(* Variant: the connection is closed without a response. *)
Reject_silent(c, response) ==
    /\ out' = out
    /\ sock' = [sock EXCEPT ![c] = "closed"]
    /\ pc' = [pc EXCEPT ![c] = "done"]

(* Reject during the handshake: send one response, close, return. *)
Reject(c, response) ==
    /\ out' = Sent(out, c, response)
    /\ sock' = [sock EXCEPT ![c] = "closed"]
    /\ pc' = [pc EXCEPT ![c] = "done"]

(* Variant: a chat frame that comes first is queued before the refusal. *)
HAuth_queueing_first_frame(c) ==
    /\ ~exited
    /\ pc[c] = "auth_read"
    /\ \/ /\ ~HasInput(c)
          /\ sock' = [sock EXCEPT ![c] = "closed"]
          /\ pc' = [pc EXCEPT ![c] = "done"]
          /\ UNCHANGED <<out, hmsg, nframes, msg_queue, enqLog>>
       \/ /\ HasInput(c)
          /\ nframes' = [nframes EXCEPT ![c] = @ + 1]
          /\ LET p == parse_message(Input(c))
                 r == enqueue_message(msg_queue, p.msg)
             IN  IF p.rc # 0 \/ p.msg.type # MSG_TYPE_AUTH
                 THEN /\ Reject(c, format_error_message(INVALID_AUTH_FORMAT))
                      /\ msg_queue' = IF p.rc = 0 /\ p.msg.type = MSG_TYPE_MESSAGE
                                      THEN r.queue ELSE msg_queue
                      /\ enqLog' = IF p.rc = 0 /\ p.msg.type = MSG_TYPE_MESSAGE /\ r.rc = 0
                                   THEN Append(enqLog, [msg |-> p.msg, from |-> c])
                                   ELSE enqLog
                      /\ UNCHANGED hmsg
                 ELSE IF ~validate_username(p.msg.sender)
                 THEN Reject(c, Line(AUTH_FAILED_INVALID))
                      /\ UNCHANGED <<hmsg, msg_queue, enqLog>>
                 ELSE /\ hmsg' = [hmsg EXCEPT ![c] = p.msg]
                      /\ pc' = [pc EXCEPT ![c] = "check_name"]
                      /\ UNCHANGED <<out, sock, msg_queue, enqLog>>
    /\ UNCHANGED <<server_running, regVars, mutexVars, wake, exited, mpc,
                   username, ni, scn, bcastVars, ndeq, ndrop, probe>>

(* First read, parse_message, the AUTH type check and validate_username. *)
HAuth(c) ==
    /\ ~exited
    /\ pc[c] = "auth_read"
    /\ \/ /\ ~HasInput(c)                                \* valread <= 0
          /\ sock' = [sock EXCEPT ![c] = "closed"]
          /\ pc' = [pc EXCEPT ![c] = "done"]
          /\ UNCHANGED <<out, hmsg, nframes>>
       \/ /\ HasInput(c)
          /\ nframes' = [nframes EXCEPT ![c] = @ + 1]
          /\ LET p == parse_message(Input(c))
            IN  IF p.rc # 0 \/ p.msg.type # MSG_TYPE_AUTH
                THEN Reject(c, format_error_message(INVALID_AUTH_FORMAT))
                     /\ UNCHANGED hmsg
                ELSE IF ~validate_username(p.msg.sender)
                THEN Reject(c, Line(AUTH_FAILED_INVALID)) /\ UNCHANGED hmsg
                ELSE /\ hmsg' = [hmsg EXCEPT ![c] = p.msg]
                     /\ pc' = [pc EXCEPT ![c] = "check_name"]
                     /\ UNCHANGED <<out, sock>>
    /\ UNCHANGED <<server_running, regVars, msg_queue, mutexVars, wake, exited, mpc,
                   username, ni, scn, bcastVars, logVars, probe>>

(* if (username_exists(auth_msg.sender)) ...; then the copy into username. *)
HUsernameExists(c) ==
    /\ ~exited
    /\ pc[c] = "check_name"
    /\ CanEnter(clients_mutex, destroyed.c)
    /\ IF username_exists(Reg, hmsg[c].sender)
       THEN Reject(c, Line(AUTH_FAILED)) /\ UNCHANGED username
       ELSE /\ username' = [username EXCEPT ![c] = Take(hmsg[c].sender, MAX_USERNAME - 1)]
            /\ pc' = [pc EXCEPT ![c] = "add"]
            /\ UNCHANGED <<out, sock>>
    /\ hmsg' = [hmsg EXCEPT ![c] = ZeroMessage]          \* auth_msg is not read again
    /\ UNCHANGED <<server_running, regVars, msg_queue, mutexVars, wake, exited, mpc,
                   ni, inputVars, bcastVars, logVars, probe>>

(* if (add_client(client_socket, username) != 0) ... *)
HAddClient(c) ==
    /\ ~exited
    /\ pc[c] = "add"
    /\ CanEnter(clients_mutex, destroyed.c)
    /\ LET r == add_client(Reg, c, username[c])
       IN  IF r.rc # 0
           THEN Reject(c, Line(SERVER_FULL)) /\ UNCHANGED regVars
           ELSE /\ clients' = r.reg.clients
                /\ client_count' = r.reg.client_count
                /\ pc' = [pc EXCEPT ![c] = "send_ok"]
                /\ UNCHANGED <<out, sock>>
    /\ UNCHANGED <<server_running, msg_queue, mutexVars, wake, exited, mpc,
                   username, hmsg, ni, inputVars, bcastVars, logVars, probe>>

(* send(client_socket, "AUTH_OK\n") *)
HSendAuthOk(c) ==
    /\ ~exited
    /\ pc[c] = "send_ok"
    /\ out' = Sent(out, c, Line(AUTH_OK))
    /\ sock' = AfterSend(sock, c)
    /\ pc' = [pc EXCEPT ![c] = "join_lock"]
    /\ UNCHANGED <<server_running, regVars, msg_queue, mutexVars, wake, exited, mpc,
                   username, hmsg, ni, inputVars, bcastVars, logVars, probe>>

(* broadcast_notification: pthread_mutex_lock(&clients_mutex) *)
HNotifyLock(c) ==
    /\ ~exited
    /\ pc[c] \in {"join_lock", "leave_lock"}
    /\ Locked(clients_mutex, destroyed.c, HandlerT(c), clients_mutex')
    /\ ni' = [ni EXCEPT ![c] = 0]
    /\ pc' = [pc EXCEPT ![c] = IF pc[c] = "join_lock" THEN "join_send" ELSE "leave_send"]
    /\ UNCHANGED <<server_running, regVars, msg_queue, queue_mutex, destroyed, wake,
                   exited, mpc, username, hmsg, inputVars, sock, out, bcastVars,
                   logVars, probe>>

NotifyText(c) ==
    IF pc[c] = "join_send" THEN username[c] \o JOINED ELSE username[c] \o LEFT

(* Variant: the join notification is handed to the message queue as a    *)
(* message of the server instead of being written by the handler.        *)
HNotifySend_through_queue(c) ==
    /\ ~exited
    /\ pc[c] \in {"join_send", "leave_send"}
    /\ IF pc[c] = "join_send"
       THEN /\ msg_queue' = enqueue_message(msg_queue,
                               [ZeroMessage EXCEPT !.type = MSG_TYPE_NOTIFY,
                                                   !.content = Take(NotifyText(c), MAX_MESSAGE - 1)]).queue
            /\ clients_mutex' = Unlocked(clients_mutex, HandlerT(c))
            /\ pc' = [pc EXCEPT ![c] = "loop_top"]
            /\ ni' = [ni EXCEPT ![c] = 0]
            /\ UNCHANGED <<out, sock>>
       ELSE /\ msg_queue' = msg_queue
            /\ IF ni[c] < client_count
               THEN /\ out' = Sent(out, clients[ni[c]].socket_fd,
                                   format_notification(Take(NotifyText(c), BUFFER_SIZE - 1)))
                    /\ sock' = AfterSend(sock, clients[ni[c]].socket_fd)
                    /\ ni' = [ni EXCEPT ![c] = @ + 1]
                    /\ UNCHANGED <<pc, clients_mutex>>
               ELSE /\ clients_mutex' = Unlocked(clients_mutex, HandlerT(c))
                    /\ pc' = [pc EXCEPT ![c] = "remove"]
                    /\ ni' = [ni EXCEPT ![c] = 0]
                    /\ UNCHANGED <<out, sock>>
    /\ UNCHANGED <<server_running, regVars, queue_mutex, destroyed, wake,
                   exited, mpc, username, hmsg, inputVars, bcastVars, logVars, probe>>

(* broadcast_notification: one send of the loop, or the unlock after it. *)
HNotifySend(c) ==
    /\ ~exited
    /\ pc[c] \in {"join_send", "leave_send"}
    /\ IF ni[c] < client_count
       THEN /\ out' = Sent(out, clients[ni[c]].socket_fd,
                           format_notification(Take(NotifyText(c), BUFFER_SIZE - 1)))
            /\ sock' = AfterSend(sock, clients[ni[c]].socket_fd)
            /\ ni' = [ni EXCEPT ![c] = @ + 1]
            /\ UNCHANGED <<pc, clients_mutex>>
       ELSE /\ clients_mutex' = Unlocked(clients_mutex, HandlerT(c))
            /\ pc' = [pc EXCEPT ![c] = IF pc[c] = "join_send" THEN "loop_top" ELSE "remove"]
            /\ ni' = [ni EXCEPT ![c] = 0]
            /\ UNCHANGED <<out, sock>>
    /\ UNCHANGED <<server_running, regVars, msg_queue, queue_mutex, destroyed, wake,
                   exited, mpc, username, hmsg, inputVars, bcastVars, logVars, probe>>

(* while (server_running) { ... read(client_socket, ...) *)
HLoopTop(c) ==
    /\ ~exited
    /\ pc[c] = "loop_top"
    /\ pc' = [pc EXCEPT ![c] = IF server_running /\ sock[c] \in {"open", "reset"}
                               THEN "reading" ELSE "leave_lock"]
    /\ UNCHANGED <<server_running, regVars, msg_queue, mutexVars, wake, exited, mpc,
                   username, hmsg, ni, inputVars, sock, out, bcastVars, logVars, probe>>

(* Variant: the sender the client wrote is kept. *)
WithSender_trusting(msg, name) == msg

(* strncpy(msg.sender, username, MAX_USERNAME - 1) *)
WithSender(msg, name) == [msg EXCEPT !.sender = Take(name, MAX_USERNAME - 1)]

(* Variant: a frame that is neither a chat frame nor a DISCONNECT ends   *)
(* the connection.                                                       *)
HFrame_strict(c, f) ==
    LET p == parse_message(f)
    IN  IF p.rc = 0 /\ p.msg.type = MSG_TYPE_MESSAGE
        THEN /\ hmsg' = [hmsg EXCEPT ![c] = WithSender(p.msg, username[c])]
             /\ pc' = [pc EXCEPT ![c] = "enqueue"]
        ELSE /\ pc' = [pc EXCEPT ![c] = "leave_lock"]
             /\ UNCHANGED hmsg

(* The frame the read returned, classified. *)
HFrame(c, f) ==
    LET p == parse_message(f)
    IN  IF p.rc = 0 /\ p.msg.type = MSG_TYPE_MESSAGE
        THEN /\ hmsg' = [hmsg EXCEPT ![c] = WithSender(p.msg, username[c])]
             /\ pc' = [pc EXCEPT ![c] = "enqueue"]
        ELSE IF p.rc = 0 /\ p.msg.type = MSG_TYPE_DISCONNECT
        THEN /\ pc' = [pc EXCEPT ![c] = "leave_lock"]
             /\ UNCHANGED hmsg
        ELSE /\ pc' = [pc EXCEPT ![c] = "loop_top"]
             /\ UNCHANGED hmsg

(* The blocking read of the receive loop returns. *)
HRead(c) ==
    /\ ~exited
    /\ pc[c] = "reading"
    /\ \/ /\ ~HasInput(c)                                \* valread <= 0
          /\ pc' = [pc EXCEPT ![c] = "leave_lock"]
          /\ UNCHANGED <<hmsg, nframes>>
       \/ /\ HasInput(c)
          /\ nframes' = [nframes EXCEPT ![c] = @ + 1]
          /\ HFrame(c, Input(c))
    /\ UNCHANGED <<server_running, regVars, msg_queue, mutexVars, wake, exited, mpc,
                   username, ni, scn, sock, out, bcastVars, logVars, probe>>

(* lock; enqueue_message; signal on success; unlock *)
HEnqueue(c) ==
    /\ ~exited
    /\ pc[c] = "enqueue"
    /\ CanEnter(queue_mutex, destroyed.q)
    /\ LET r == enqueue_message(msg_queue, hmsg[c])
       IN  /\ msg_queue' = r.queue
           /\ wake' = IF r.rc = 0 THEN Signalled ELSE wake
           /\ enqLog' = IF r.rc = 0
                        THEN Append(enqLog, [msg |-> hmsg[c], from |-> c]) ELSE enqLog
           /\ ndrop' = IF r.rc = 0 THEN ndrop ELSE ndrop + 1
    /\ hmsg' = [hmsg EXCEPT ![c] = ZeroMessage]          \* msg goes out of scope
    /\ pc' = [pc EXCEPT ![c] = "loop_top"]
    /\ UNCHANGED <<server_running, regVars, mutexVars, exited, mpc, username, ni,
                   inputVars, sock, out, bcastVars, ndeq, probe>>

(* Variant: the handler closes and returns without remove_client. *)
HRemove_keeping_entry(c) ==
    /\ ~exited
    /\ pc[c] = "remove"
    /\ CanEnter(clients_mutex, destroyed.c)
    /\ sock' = [sock EXCEPT ![c] = "closed"]
    /\ pc' = [pc EXCEPT ![c] = "done"]
    /\ UNCHANGED <<server_running, regVars, msg_queue, mutexVars, wake, exited, mpc,
                   username, hmsg, ni, inputVars, out, bcastVars, logVars, probe>>

(* remove_client(client_socket); close(client_socket); return NULL *)
HRemove(c) ==
    /\ ~exited
    /\ pc[c] = "remove"
    /\ CanEnter(clients_mutex, destroyed.c)
    /\ LET r == remove_client(Reg, c)
       IN  /\ clients' = r.clients
           /\ client_count' = r.client_count
    /\ sock' = [sock EXCEPT ![c] = "closed"]
    /\ pc' = [pc EXCEPT ![c] = "done"]
    /\ UNCHANGED <<server_running, msg_queue, mutexVars, wake, exited, mpc, username,
                   hmsg, ni, inputVars, out, bcastVars, logVars, probe>>

handlerVars == <<pc, username, hmsg, ni, scn, nframes>>

(***************************************************************************)
(* broadcast_thread                                                        *)
(***************************************************************************)

(* while (server_running) *)
BTop ==
    /\ ~exited
    /\ bpc = "top"
    /\ bpc' = IF server_running THEN "lock_q" ELSE "exit"
    /\ UNCHANGED <<server_running, regVars, msg_queue, mutexVars, wake, exited, mpc,
                   handlerVars, sock, out, bmsg, bi, bsnap, bsent, logVars, probe>>

(* Variant: the thread does not wait on an empty queue. *)
BCheck_polling ==
    /\ ~exited
    /\ bpc = "lock_q"
    /\ Locked(queue_mutex, destroyed.q, BcastT, queue_mutex')
    /\ bpc' = "after_wait"
    /\ UNCHANGED <<server_running, regVars, msg_queue, clients_mutex, destroyed, wake,
                   exited, mpc, handlerVars, sock, out, bmsg, bi, bsnap, bsent,
                   logVars, probe>>

(* pthread_mutex_lock(&queue_mutex), or the re-lock that ends a wait, and *)
(* while (is_queue_empty(&msg_queue) && server_running)                   *)
BCheck ==
    /\ ~exited
    /\ bpc = "lock_q"
    /\ Locked(queue_mutex, destroyed.q, BcastT, queue_mutex')
    /\ bpc' = IF is_queue_empty(msg_queue) /\ server_running
              THEN "cond_wait" ELSE "after_wait"
    /\ UNCHANGED <<server_running, regVars, msg_queue, clients_mutex, destroyed, wake,
                   exited, mpc, handlerVars, sock, out, bmsg, bi, bsnap, bsent,
                   logVars, probe>>

(* pthread_cond_wait: release the mutex and sleep, as one step. *)
BCondWait ==
    /\ ~exited
    /\ bpc = "cond_wait"
    /\ queue_mutex' = Unlocked(queue_mutex, BcastT)
    /\ wake' = FALSE
    /\ bpc' = "sleeping"
    /\ UNCHANGED <<server_running, regVars, msg_queue, clients_mutex, destroyed,
                   exited, mpc, handlerVars, sock, out, bmsg, bi, bsnap, bsent,
                   logVars, probe>>

(* The waiter is woken by a signal. *)
BWake ==
    /\ ~exited
    /\ bpc = "sleeping"
    /\ wake
    /\ wake' = FALSE
    /\ bpc' = "lock_q"
    /\ UNCHANGED <<server_running, regVars, msg_queue, mutexVars, exited, mpc,
                   handlerVars, sock, out, bmsg, bi, bsnap, bsent, logVars, probe>>

(* A spurious wake-up, which pthread_cond_wait permits. *)
BSpuriousWake ==
    /\ ~exited
    /\ bpc = "sleeping"
    /\ ~wake
    /\ bpc' = "lock_q"
    /\ UNCHANGED <<server_running, regVars, msg_queue, mutexVars, wake, exited, mpc,
                   handlerVars, sock, out, bmsg, bi, bsnap, bsent, logVars, probe>>

(* Variant: queue_mutex is kept across the fan-out. *)
BDequeue_keeping_lock ==
    /\ ~exited
    /\ bpc = "after_wait"
    /\ IF ~server_running
       THEN /\ bpc' = "exit"
            /\ queue_mutex' = Unlocked(queue_mutex, BcastT)
            /\ UNCHANGED <<msg_queue, bmsg, ndeq>>
       ELSE LET r == dequeue_message(msg_queue)
            IN  /\ msg_queue' = r.queue
                /\ bmsg' = IF r.rc = 0 THEN r.msg ELSE bmsg
                /\ ndeq' = IF r.rc = 0 THEN ndeq + 1 ELSE ndeq
                /\ bpc' = IF r.rc = 0 THEN "lock_c" ELSE "top"
                /\ queue_mutex' = IF r.rc = 0 THEN queue_mutex
                                  ELSE Unlocked(queue_mutex, BcastT)
    /\ UNCHANGED <<server_running, regVars, clients_mutex, destroyed, wake, exited,
                   mpc, handlerVars, sock, out, bi, bsnap, bsent, enqLog, ndrop, probe>>

(* if (!server_running) break; else dequeue_message and unlock. *)
BDequeue ==
    /\ ~exited
    /\ bpc = "after_wait"
    /\ queue_mutex' = Unlocked(queue_mutex, BcastT)
    /\ IF ~server_running
       THEN /\ bpc' = "exit"
            /\ UNCHANGED <<msg_queue, bmsg, ndeq>>
       ELSE LET r == dequeue_message(msg_queue)
            IN  /\ msg_queue' = r.queue
                /\ bmsg' = IF r.rc = 0 THEN r.msg ELSE bmsg
                /\ ndeq' = IF r.rc = 0 THEN ndeq + 1 ELSE ndeq
                /\ bpc' = IF r.rc = 0 THEN "lock_c" ELSE "top"
    /\ UNCHANGED <<server_running, regVars, clients_mutex, destroyed, wake, exited,
                   mpc, handlerVars, sock, out, bi, bsnap, bsent, enqLog, ndrop, probe>>

(* pthread_mutex_lock(&clients_mutex) before the fan-out loop. *)
BLockClients ==
    /\ ~exited
    /\ bpc = "lock_c"
    /\ Locked(clients_mutex, destroyed.c, BcastT, clients_mutex')
    /\ bi' = 0
    /\ bsnap' = Registered
    /\ bsent' = {}
    /\ bpc' = "fanout"
    /\ UNCHANGED <<server_running, regVars, msg_queue, queue_mutex, destroyed, wake,
                   exited, mpc, handlerVars, sock, out, bmsg, logVars, probe>>

(* Variant: the fan-out passes over the entries of the message's sender. *)
BFanout_not_to_sender ==
    /\ ~exited
    /\ bpc = "fanout"
    /\ IF bi < client_count
       THEN /\ out' = IF clients[bi].username = bmsg.sender THEN out
                       ELSE Sent(out, clients[bi].socket_fd,
                                 format_chat_message(bmsg.sender, bmsg.content))
            /\ bsent' = IF clients[bi].username = bmsg.sender THEN bsent
                         ELSE bsent \cup {clients[bi].socket_fd}
            /\ sock' = IF clients[bi].username = bmsg.sender THEN sock
                        ELSE AfterSend(sock, clients[bi].socket_fd)
            /\ bi' = bi + 1
            /\ UNCHANGED <<bpc, clients_mutex, bmsg, bsnap>>
       ELSE /\ clients_mutex' = Unlocked(clients_mutex, BcastT)
            /\ bpc' = "top"
            /\ bi' = 0
            /\ bmsg' = ZeroMessage
            /\ bsnap' = {}
            /\ bsent' = {}
            /\ UNCHANGED <<out, sock>>
    /\ UNCHANGED <<server_running, regVars, msg_queue, queue_mutex, destroyed, wake,
                   exited, mpc, handlerVars, logVars, probe>>

(* One send of the fan-out loop, or the unlock after it. *)
BFanout ==
    /\ ~exited
    /\ bpc = "fanout"
    /\ IF bi < client_count
       THEN /\ out' = Sent(out, clients[bi].socket_fd,
                           format_chat_message(bmsg.sender, bmsg.content))
            /\ bsent' = bsent \cup {clients[bi].socket_fd}
            /\ sock' = AfterSend(sock, clients[bi].socket_fd)
            /\ bi' = bi + 1
            /\ UNCHANGED <<bpc, clients_mutex, bmsg, bsnap>>
       ELSE /\ clients_mutex' = Unlocked(clients_mutex, BcastT)
            /\ bpc' = "top"
            /\ bi' = 0
            /\ bmsg' = ZeroMessage                       \* msg goes out of scope
            /\ bsnap' = {}
            /\ bsent' = {}
            /\ UNCHANGED <<out, sock>>
    /\ UNCHANGED <<server_running, regVars, msg_queue, queue_mutex, destroyed, wake,
                   exited, mpc, handlerVars, logVars, probe>>

(***************************************************************************)
(* signal_handler and main                                                 *)
(***************************************************************************)

(* SIGINT: server_running = 0 *)
SignalHandler ==
    /\ ~exited
    /\ scn.sigint
    /\ server_running
    /\ server_running' = FALSE
    /\ UNCHANGED <<regVars, msg_queue, mutexVars, wake, exited, mpc, handlerVars,
                   sock, out, bcastVars, logVars, probe>>

(* while (server_running) { accept(...) *)
MainLoopTop ==
    /\ ~exited
    /\ mpc = "loop_top"
    /\ mpc' = IF server_running THEN "accepting" ELSE "sweep"
    /\ UNCHANGED <<server_running, regVars, msg_queue, mutexVars, wake, exited,
                   handlerVars, sock, out, bcastVars, logVars, probe>>

(* Variant: the flag is not looked at after accept. *)
MainAccept_unchecked(c) ==
    /\ ~exited
    /\ mpc = "accepting"
    /\ c <= scn.nconn
    /\ pc[c] = "unborn"
    /\ \A d \in Conns : d < c => pc[d] # "unborn"
    /\ sock' = [sock EXCEPT ![c] = "open"]
    /\ pc' = [pc EXCEPT ![c] = "auth_read"]
    /\ mpc' = "loop_top"
    /\ UNCHANGED <<server_running, regVars, msg_queue, mutexVars, wake, exited,
                   username, hmsg, ni, inputVars, out, bcastVars, logVars, probe>>

(* accept returns connection c: break when shutting down, else spawn its handler. *)
MainAccept(c) ==
    /\ ~exited
    /\ mpc = "accepting"
    /\ c <= scn.nconn
    /\ pc[c] = "unborn"
    /\ \A d \in Conns : d < c => pc[d] # "unborn"
    /\ sock' = [sock EXCEPT ![c] = "open"]
    /\ IF server_running
       THEN /\ pc' = [pc EXCEPT ![c] = "auth_read"]
            /\ mpc' = "loop_top"
       ELSE /\ pc' = [pc EXCEPT ![c] = "unhandled"]
            /\ mpc' = "sweep"
    /\ UNCHANGED <<server_running, regVars, msg_queue, mutexVars, wake, exited,
                   username, hmsg, ni, inputVars, out, bcastVars, logVars, probe>>

(* accept is interrupted by the signal and fails; the flag ends the loop. *)
MainInterrupted ==
    /\ ~exited
    /\ mpc = "accepting"
    /\ ~server_running
    /\ mpc' = "sweep"
    /\ UNCHANGED <<server_running, regVars, msg_queue, mutexVars, wake, exited,
                   handlerVars, sock, out, bcastVars, logVars, probe>>

(* lock; close every registered socket; client_count = 0; unlock;  *)
(* close(server_fd); pthread_cond_signal(&queue_cond)               *)
MainSweep ==
    /\ ~exited
    /\ mpc = "sweep"
    /\ CanEnter(clients_mutex, destroyed.c)
    /\ sock' = [c \in Conns |-> IF c \in Registered THEN "closed" ELSE sock[c]]
    /\ client_count' = 0
    /\ wake' = Signalled
    /\ mpc' = "destroy"
    /\ UNCHANGED <<server_running, clients, msg_queue, mutexVars, exited,
                   handlerVars, out, bcastVars, logVars, probe>>

(* pthread_mutex_destroy on both mutexes, pthread_cond_destroy.  Destroying *)
(* a mutex that is locked, or that a waiter will re-lock, is undefined:     *)
(* the call either fails and leaves it usable, or destroys it.              *)
MainDestroy ==
    /\ ~exited
    /\ mpc = "destroy"
    /\ \E dc \in BOOLEAN, dq \in BOOLEAN :
         /\ clients_mutex = FreeM => dc
         /\ (queue_mutex = FreeM /\ bpc # "sleeping") => dq
         /\ destroyed' = [c |-> dc, q |-> dq]
    /\ mpc' = "return"
    /\ UNCHANGED <<server_running, regVars, msg_queue, clients_mutex, queue_mutex,
                   wake, exited, handlerVars, sock, out, bcastVars, logVars, probe>>

(* return 0: the process ends and every thread with it. *)
MainReturn ==
    /\ ~exited
    /\ mpc = "return"
    /\ exited' = TRUE
    /\ mpc' = "exited"
    /\ UNCHANGED <<server_running, regVars, msg_queue, mutexVars, wake,
                   handlerVars, sock, out, bcastVars, logVars, probe>>

(* The descriptors a thread is about to call send() on. *)
SendTargets ==
    (IF bpc = "fanout" /\ bi < client_count THEN {clients[bi].socket_fd} ELSE {})
    \cup {clients[ni[c]].socket_fd :
             c \in {d \in Conns : pc[d] \in {"join_send", "leave_send"}
                                   /\ ni[d] < client_count}}

(* send() with flags 0 on a connection that the peer has reset raises     *)
(* SIGPIPE; no handler is installed for it, so the process is terminated. *)
SigPipe ==
    /\ ~exited
    /\ \E fd \in SendTargets : fd \in Conns /\ sock[fd] = "reset"
    /\ exited' = TRUE
    /\ mpc' = "killed"
    /\ UNCHANGED <<server_running, regVars, msg_queue, mutexVars, wake, handlerVars,
                   sock, out, bcastVars, logVars, probe>>

Handler(c) ==
    \/ HAuth(c) \/ HUsernameExists(c) \/ HAddClient(c) \/ HSendAuthOk(c)
    \/ HNotifyLock(c) \/ HNotifySend(c) \/ HLoopTop(c) \/ HRead(c)
    \/ HEnqueue(c) \/ HRemove(c)

Broadcast ==
    \/ BTop \/ BCheck \/ BCondWait \/ BWake \/ BSpuriousWake
    \/ BDequeue \/ BLockClients \/ BFanout

Main ==
    \/ MainLoopTop \/ (\E c \in Conns : MainAccept(c)) \/ MainInterrupted
    \/ MainSweep \/ MainDestroy \/ MainReturn

Next ==
    \/ \E c \in Conns : Handler(c)
    \/ Broadcast
    \/ Main
    \/ SignalHandler
    \/ SigPipe

Spec == Init /\ [][Next]_vars


(***************************************************************************)
(* Properties of the running server, checked under Spec.                   *)
(***************************************************************************)

Live == 0..(client_count - 1)

(* The name the client of connection c asks for in its first frame. *)
AskedName(c) == parse_message(scn.script[c][1]).msg.sender

(* C1. Uniqueness: of the handshakes that present the same name at most   *)
(* one succeeds, so the registry never holds two entries with one name.   *)
C1_UniqueUsernames ==
    \A i \in Live, j \in Live : i # j => clients[i].username # clients[j].username

(* C2. The registry size stays between 0 and MAX_CLIENTS. *)
C2_ClientCountInRange == client_count \in 0..MAX_CLIENTS

(* A registration was refused on a full registry, and an entry was removed *)
(* again after a successful one.                                           *)
C2_Witness ==
    /\ \E c \in Conns : Line(SERVER_FULL) \in out[c]
    /\ \E c \in Conns : pc[c] = "done" /\ Line(AUTH_OK) \in out[c]
    /\ client_count < MAX_CLIENTS

(* C3, as stated: a handshake that ends while the registry is full ends   *)
(* with the server-full response and leaves the registry size alone.      *)
C3_AnyAttemptAtCapacity ==
    [][\A c \in Conns :
          (client_count >= MAX_CLIENTS
             /\ pc[c] \in {"auth_read", "check_name", "add"}
             /\ pc'[c] \notin {"auth_read", "check_name", "add"}
             /\ nframes'[c] > 0)
          => /\ pc'[c] = "done"
             /\ Line(SERVER_FULL) \in out'[c]
             /\ client_count' = client_count]_vars

(* C3, amended: a handshake that has passed the format, validity and      *)
(* duplicate checks and reaches add_client while the registry is full is  *)
(* answered with the server-full response and nothing else, the handler   *)
(* ends, and the registry is left as it was.                              *)
C3_AddAtCapacity ==
    [][\A c \in Conns :
          (client_count >= MAX_CLIENTS /\ pc[c] = "add" /\ pc'[c] # "add")
          => /\ pc'[c] = "done"
             /\ out'[c] = {Line(SERVER_FULL)}
             /\ sock'[c] = "closed"
             /\ clients' = clients
             /\ client_count' = client_count]_vars

C3_Witness ==
    \E c \in Conns :
        /\ pc[c] = "done"
        /\ Line(SERVER_FULL) \in out[c]
        /\ client_count = MAX_CLIENTS

(* C6. The queue's count stays between 0 and QUEUE_SIZE. *)
C6_QueueCountInRange == msg_queue.count \in 0..QUEUE_SIZE

(* A producer found the queue full and dropped its message. *)
C6_Witness == ndrop > 0 /\ msg_queue.count = QUEUE_SIZE

(* The frame the fan-out writes for the k-th enqueued message. *)
FrameOf(k) == format_chat_message(enqLog[k].msg.sender, enqLog[k].msg.content)

IsChatFrame(f) == Take(f, Len(MSG_TYPE_MESSAGE) + 1) = MSG_TYPE_MESSAGE \o <<":">>

(* C4. FIFO delivery: the k-th message dequeued is the k-th message       *)
(* enqueued, a message is dequeued only after the fan-out of the one      *)
(* before it has ended, and every chat frame written is the frame of the  *)
(* message dequeued last.                                                 *)
C4_FifoDelivery ==
    [][/\ ndeq' # ndeq
          => /\ ndeq' = ndeq + 1
             /\ ndeq' <= Len(enqLog)
             /\ bmsg' = enqLog[ndeq'].msg
             /\ bpc = "after_wait" /\ bsnap = {} /\ bsent = {}
       /\ \A c \in Conns : \A f \in out'[c] \ out[c] :
             IsChatFrame(f)
             => /\ ndeq' = ndeq /\ ndeq >= 1
                /\ f = FrameOf(ndeq)]_vars

(* One handler enqueued two different messages in a row and both were     *)
(* fanned out to a client.                                                *)
C4_Witness ==
    /\ ndeq >= 2
    /\ enqLog[1].from = enqLog[2].from
    /\ enqLog[1].msg # enqLog[2].msg
    /\ bpc = "top"
    /\ \E c \in Conns : FrameOf(1) \in out[c] /\ FrameOf(2) \in out[c]

(* C8. For every message dequeued by the broadcast thread: when its       *)
(* fan-out ends, its frame MSG:<sender>:<content> has been                *)
(* written to every client that was registered when the fan-out began,   *)
(* the sender's own connection included.                                  *)
C8_FanoutReachesAll ==
    [][(bpc = "fanout" /\ bpc' = "top")
       => \A fd \in bsnap :
             /\ fd \in bsent
             /\ format_chat_message(bmsg.sender, bmsg.content) \in out[fd]]_vars

(* A name longer than a username buffer. *)
LongName == [i \in 1..(MAX_USERNAME + 1) |-> "x"]

(* Sender fields a client may write into a MSG frame. *)
SenderFields == {alice, bob, carol, LongName}

(* What the receive loop hands to enqueue_message for frame f on c. *)
Enqueued(c, f) ==
    LET p == parse_message(f)
    IN  IF p.rc = 0 /\ p.msg.type = MSG_TYPE_MESSAGE
        THEN <<WithSender(p.msg, username[c])>>
        ELSE <<>>

(* The sender of every message in the log, in the queue's live slots and  *)
(* in the broadcast thread's hands is the name its connection             *)
(* authenticated with, and the message built from a chat frame does not   *)
(* depend on the sender field s written in the frame.                     *)
SenderIsAuthenticated(fields) ==
    /\ \A k \in 1..Len(enqLog) :
          enqLog[k].msg.sender = username[enqLog[k].from]
    /\ \A c \in Conns :
          pc[c] = "enqueue" => hmsg[c].sender = username[c]
    /\ bpc \in {"lock_c", "fanout"} => bmsg = enqLog[ndeq].msg
    /\ \A c \in Conns : \A f \in out[c] :
          IsChatFrame(f) => \E k \in 1..Len(enqLog) : f = FrameOf(k)
    /\ \A c \in Conns : \A s \in fields : \A t \in {hi, yo} :
          pc[c] = "reading"
          => Enqueued(c, ChatFrame(s, t)) = Enqueued(c, ChatFrame(username[c], t))

AuthenticatedDisconnect(c) ==
    /\ nframes[c] >= 2
    /\ Line(AUTH_OK) \in out[c]
    /\ LET p == parse_message(scn.script[c][nframes[c]])
       IN  p.rc = 0 /\ p.msg.type = MSG_TYPE_DISCONNECT

(* C10. When the socket of an authenticated client that sent DISCONNECT   *)
(* is closed, DISCONNECT_ACK has been written to it.                      *)
C10_DisconnectAcked ==
    \A c \in Conns :
        (AuthenticatedDisconnect(c) /\ pc[c] = "done")
        => Line(DISCONNECT_ACK) \in out[c]

(***************************************************************************)
(* The message queue taken alone: enqueue_message and dequeue_message      *)
(* applied in any order to the queue main has initialised.  probe keeps    *)
(* the call made last, its result, the queue before it, and the messages   *)
(* accepted and handed out so far.                                         *)
(***************************************************************************)
QueueMessages ==
    {[type |-> MSG_TYPE_MESSAGE, sender |-> n, content |-> t] :
        n \in {alice, bob}, t \in {hi, yo}}

serverVars == <<server_running, mutexVars, wake, exited, mpc, handlerVars, sock, out,
                bcastVars, logVars>>

InitQueue ==
    /\ InitServer
    /\ scn = Shutdown
    /\ probe = [op |-> "init", n |-> 0, rc |-> 0, prev |-> init_message_queue,
                ins |-> <<>>, outs |-> <<>>, got |-> ZeroMessage, refused |-> 0]

QEnqueue(m) ==
    /\ probe.n < MaxOps
    /\ LET r == enqueue_message(msg_queue, m)
       IN  /\ msg_queue' = r.queue
           /\ probe' = [probe EXCEPT
                 !.op = "enqueue", !.n = @ + 1, !.rc = r.rc, !.prev = msg_queue,
                 !.ins = IF r.rc = 0 THEN Append(@, m) ELSE @,
                 !.refused = IF r.rc = 0 THEN @ ELSE @ + 1]
    /\ UNCHANGED <<serverVars, regVars>>

QDequeue ==
    /\ probe.n < MaxOps
    /\ LET r == dequeue_message(msg_queue)
       IN  /\ msg_queue' = r.queue
           /\ probe' = [probe EXCEPT
                 !.op = "dequeue", !.n = @ + 1, !.rc = r.rc, !.prev = msg_queue,
                 !.outs = IF r.rc = 0 THEN Append(@, r.msg) ELSE @,
                 !.got = r.msg]
    /\ UNCHANGED <<serverVars, regVars>>

NextQueue == (\E m \in QueueMessages : QEnqueue(m)) \/ QDequeue

SpecQueue == InitQueue /\ [][NextQueue]_vars

(* C5. What is handed out is what was accepted, in the same order; the    *)
(* queue holds exactly the accepted messages not yet handed out, so a     *)
(* drained queue has handed out all of them; and enqueue_message on a     *)
(* full queue returns -1 and leaves the queue as it was, while on a queue *)
(* that is not full it returns 0.                                         *)
C5_NoLossUnderCapacity ==
    /\ Len(probe.outs) <= Len(probe.ins)
    /\ probe.outs = SubSeq(probe.ins, 1, Len(probe.outs))
    /\ msg_queue.count = Len(probe.ins) - Len(probe.outs)
    /\ \A k \in 0..(msg_queue.count - 1) :
          msg_queue.messages[(msg_queue.tail + k) % QUEUE_SIZE]
             = probe.ins[Len(probe.outs) + 1 + k]
    /\ probe.op = "enqueue"
       => IF probe.prev.count >= QUEUE_SIZE
          THEN probe.rc = -1 /\ msg_queue = probe.prev
          ELSE probe.rc = 0
    /\ probe.op = "dequeue"
       => probe.rc = IF probe.prev.count = 0 THEN -1 ELSE 0

(* QUEUE_SIZE messages were accepted, one more was refused, and the queue *)
(* was then drained.                                                      *)
C5_Witness ==
    /\ Len(probe.ins) = QUEUE_SIZE
    /\ probe.refused = 1
    /\ probe.outs = probe.ins
    /\ probe.ins[1] # probe.ins[2]
    /\ msg_queue.count = 0

(***************************************************************************)
(* The registry taken alone: add_client and remove_client applied in any   *)
(* order.  probe keeps the call made last, the registry before it, and     *)
(* what one and two calls of remove_client make of that registry.          *)
(***************************************************************************)
InitRegistry ==
    /\ InitServer
    /\ scn = Shutdown
    /\ probe = [op |-> "init", n |-> 0, fd |-> 0, prev |-> Reg, once |-> Reg,
                twice |-> Reg]

RAdd(fd, name) ==
    /\ probe.n < MaxOps
    /\ fd \notin Registered
    /\ LET r == add_client(Reg, fd, name)
       IN  /\ clients' = r.reg.clients
           /\ client_count' = r.reg.client_count
           /\ probe' = [probe EXCEPT !.op = "add", !.n = @ + 1, !.fd = fd,
                                     !.prev = Reg, !.once = r.reg, !.twice = r.reg]
    /\ UNCHANGED <<serverVars, msg_queue>>

(* remove_client(fd), times times in a row. *)
RRemove(fd, times) ==
    /\ probe.n < MaxOps
    /\ LET once == remove_client(Reg, fd)
           twice == remove_client(once, fd)
           r == IF times = 1 THEN once ELSE twice
       IN  /\ clients' = r.clients
           /\ client_count' = r.client_count
           /\ probe' = [probe EXCEPT !.op = "remove", !.n = @ + 1, !.fd = fd,
                                     !.prev = Reg, !.once = once, !.twice = twice]
    /\ UNCHANGED <<serverVars, msg_queue>>

NextRegistry ==
    \/ \E fd \in Conns, name \in {alice, bob} : RAdd(fd, name)
    \/ \E fd \in Conns, times \in {1, 2} : RRemove(fd, times)

SpecRegistry == InitRegistry /\ [][NextRegistry]_vars

(* C7. Two calls of remove_client for a connection leave the registry as  *)
(* one call does, and a call for a connection without an entry leaves it  *)
(* as it was.                                                             *)
C7_RemoveIdempotent ==
    probe.op = "remove"
    => /\ probe.twice = probe.once
       /\ Reg \in {probe.once, probe.twice}
       /\ (\A i \in 0..(probe.prev.client_count - 1) :
              probe.prev.clients[i].socket_fd # probe.fd)
          => probe.once = probe.prev
       /\ (\E i \in 0..(probe.prev.client_count - 1) :
              probe.prev.clients[i].socket_fd = probe.fd)
          => /\ probe.once.client_count = probe.prev.client_count - 1
             /\ \A i \in 0..(probe.once.client_count - 1) :
                   probe.once.clients[i].socket_fd # probe.fd

(* An entry that had another one behind it was removed, and a removal was *)
(* asked for a connection without an entry.                               *)
C7_Witness ==
    /\ probe.op = "remove"
    /\ probe.prev.client_count = MAX_CLIENTS
    /\ probe.prev.clients[0].socket_fd = probe.fd
    /\ probe.once.client_count = MAX_CLIENTS - 1
    /\ Reg = probe.twice

(***************************************************************************)
(* Leaving, refused handshakes, locking and shutdown.                      *)
(***************************************************************************)

(* The frame broadcast_notification writes when c leaves. *)
LeftFrame(c) == format_notification(Take(username[c] \o LEFT, BUFFER_SIZE - 1))

(* C11. When an authenticated handler has left its receive loop: at the   *)
(* end of its notification loop NOTIFY:<username> left the chat has been  *)
(* written to every other registered client; its remove_client takes its  *)
(* entry out, so the registry size decreases by exactly one; and none of  *)
(* its steps changes the state of another handler or closes another       *)
(* connection.                                                            *)
C11_LeaveCleansUp ==
    [][\A c \in Conns :
          /\ (pc[c] = "leave_send" /\ pc'[c] = "remove")
             => \A d \in Registered \ {c} : LeftFrame(c) \in out[d]
          /\ (pc[c] = "remove" /\ pc'[c] = "done")
             => /\ client_count' = client_count - 1
                /\ c \notin {clients'[i].socket_fd : i \in 0..(client_count' - 1)}
          /\ (pc[c] \in {"leave_lock", "leave_send", "remove"} /\ pc'[c] # pc[c])
             => \A d \in Conns \ {c} :
                   /\ pc'[d] = pc[d] /\ username'[d] = username[d]
                   /\ (sock'[d] = "closed") = (sock[d] = "closed")
                   /\ nframes'[d] = nframes[d]]_vars

(* The responses that end a refused handshake. *)
Refusals ==
    {format_error_message(INVALID_AUTH_FORMAT), Line(AUTH_FAILED_INVALID),
     Line(AUTH_FAILED), Line(SERVER_FULL)}

InHandshake(c) == pc[c] \in {"auth_read", "check_name", "add"}

(* C12. A handshake that is refused leaves the registry and the queue as  *)
(* they were, writes nothing to any other connection (no join or leave    *)
(* notification) and at most the one refusal to its own; and a handshake  *)
(* whose name is in the registry when username_exists looks is refused    *)
(* with AUTH_FAILED:Username already taken.                               *)
C12_RefusalChangesNothing ==
    [][\A c \in Conns :
          /\ (InHandshake(c) /\ pc'[c] = "done")
             => /\ clients' = clients /\ client_count' = client_count
                /\ msg_queue' = msg_queue /\ enqLog' = enqLog
                /\ \A d \in Conns \ {c} : out'[d] = out[d]
                /\ out[c] = {}
                /\ out'[c] = {} \/ \E r \in Refusals : out'[c] = {r}
                /\ sock'[c] = "closed"
          /\ (pc[c] = "check_name" /\ pc'[c] # "check_name"
                /\ \E i \in Live : clients[i].username = hmsg[c].sender)
             => /\ pc'[c] = "done"
                /\ out'[c] = {Line(AUTH_FAILED)}]_vars

(* alice is registered and another client that asked for alice has been  *)
(* refused.                                                               *)
C12_Witness ==
    \E c \in Conns :
        /\ pc[c] = "done"
        /\ out[c] = {Line(AUTH_FAILED)}
        /\ AskedName(c) = alice
        /\ client_count = 1
        /\ clients[0].username = alice

(* C13. The broadcast thread never writes to a socket while it holds the  *)
(* registry lock: whenever a step of its fan-out writes to a client,      *)
(* clients_mutex is not held by the broadcast thread.                     *)
C13_NoWriteUnderRegistryLock ==
    [][(bpc = "fanout" /\ bi' = bi + 1) => clients_mutex # BcastT]_vars

(* C14. No thread holds clients_mutex and queue_mutex together: a thread  *)
(* that holds one of them is not at a place where it takes the other,     *)
(* and, while the process lives, the holder of a mutex can always take    *)
(* its next step, so no thread waits for a mutex for ever.                *)
C14_NeverBothMutexes ==
    /\ clients_mutex # FreeM => clients_mutex # queue_mutex
    /\ queue_mutex \in {FreeM, BcastT}
    /\ queue_mutex = BcastT => bpc \in {"cond_wait", "after_wait"}
    /\ clients_mutex = BcastT => bpc = "fanout"
    /\ clients_mutex # MainT
    /\ \A c \in Conns :
          clients_mutex = HandlerT(c) => pc[c] \in {"join_send", "leave_send"}
    /\ ~exited
       => /\ queue_mutex = BcastT => ENABLED (BCondWait \/ BDequeue)
          /\ clients_mutex = BcastT => ENABLED BFanout
          /\ \A c \in Conns : clients_mutex = HandlerT(c) => ENABLED HNotifySend(c)

(* Both mutexes are held, by different threads: a handler is inside its  *)
(* notification loop while the broadcast thread is about to dequeue.      *)
C14_Witness ==
    /\ queue_mutex = BcastT
    /\ bpc = "after_wait"
    /\ ~is_queue_empty(msg_queue)
    /\ \E c \in Conns : clients_mutex = HandlerT(c)

(* C15. Every access to the registry is made by a thread that holds      *)
(* clients_mutex: the sections that take and release it within one step   *)
(* (username_exists, add_client, remove_client, main's sweep) run only    *)
(* while no other thread holds it, and every step of the fan-out loop and *)
(* of the notification loop is taken with the mutex held by the thread    *)
(* that takes the step.                                                   *)
C15_RegistryUnderMutex ==
    [][/\ (clients' # clients \/ client_count' # client_count)
          => clients_mutex = FreeM
       /\ \A c \in Conns :
             /\ (pc[c] \in {"check_name", "add", "remove"} /\ pc'[c] # pc[c])
                => clients_mutex = FreeM
             /\ (pc[c] \in {"join_send", "leave_send"} /\ (pc'[c] # pc[c] \/ ni'[c] # ni[c]))
                => clients_mutex = HandlerT(c)
       /\ (bpc = "fanout" /\ (bpc' # bpc \/ bi' # bi))
          => clients_mutex = BcastT
       /\ (mpc = "sweep" /\ mpc' # mpc)
          => clients_mutex = FreeM]_vars

(* C19. No error of a single connection ends the server: the process     *)
(* ends only by main returning after the shutdown signal, and as long as  *)
(* no shutdown is requested the accept loop and the broadcast loop are    *)
(* not left.                                                              *)
C19_ConnectionErrorsAreNotFatal ==
    /\ mpc # "killed"
    /\ exited => ~server_running
    /\ server_running => (bpc # "exit" /\ mpc \in {"loop_top", "accepting"})

(***************************************************************************)
(* The running server under fair scheduling: no shutdown is requested and  *)
(* every write completes.  Each handler and the broadcast thread keep      *)
(* being scheduled; a wait on the condition variable ends by a signal (a   *)
(* spurious wake-up may happen but is not owed to anybody).                *)
(***************************************************************************)
(* One client sends a burst of chat frames while a second one joins and  *)
(* hangs up; nobody shuts the server down.                               *)
Talk ==
    [nconn |-> 2, sigint |-> FALSE,
     script |-> [c \in Conns |->
        IF c = 1
        THEN <<AuthFrame(alice)>> \o [k \in 1..ChatBurst |-> ChatFrame(alice, TextOf(k))]
        ELSE <<AuthFrame(bob)>>]]

InitLive ==
    /\ InitServer
    /\ scn = Talk
    /\ probe = <<>>

BroadcastScheduled ==
    \/ BTop \/ BCheck \/ BCondWait \/ BWake \/ BDequeue \/ BLockClients \/ BFanout

NextLive ==
    \/ \E c \in Conns : Handler(c)
    \/ Broadcast
    \/ MainLoopTop
    \/ \E c \in Conns : MainAccept(c)

(* The steps of a handler other than the return of a read. *)
HandlerScheduled(c) ==
    \/ HUsernameExists(c) \/ HAddClient(c) \/ HSendAuthOk(c) \/ HNotifyLock(c)
    \/ HNotifySend(c) \/ HLoopTop(c) \/ HEnqueue(c) \/ HRemove(c)

(* Handler c is inside read(). *)
ReadPending(c) == ~exited /\ pc[c] \in {"auth_read", "reading"}

(* A read returns (the client sends its next frame or hangs up): HAuth    *)
(* and HRead are enabled exactly while the read is pending and end it, so *)
(* this is weak fairness of those two steps.                              *)
Fairness ==
    /\ WF_vars(BroadcastScheduled)
    /\ \A c \in Conns : WF_vars(HandlerScheduled(c))
    /\ \A c \in Conns : []<>~ReadPending(c)
    /\ WF_vars(MainLoopTop \/ \E c \in Conns : MainAccept(c))

SpecLive == InitLive /\ [][NextLive]_vars /\ Fairness

(* The k-th enqueued message has been dequeued and its fan-out has ended. *)
Delivered(k) == ndeq >= k /\ ~(ndeq = k /\ bpc \in {"lock_c", "fanout"})

(* C16. While the server runs, every message that enqueue_message         *)
(* accepted is eventually dequeued and fanned out: the signal of its      *)
(* producer is not lost.                                                  *)
C16_EnqueuedIsDelivered ==
    \A k \in 1..ChatBurst : (Len(enqLog) >= k) ~> Delivered(k)

(* A message is in the queue while the broadcast thread sleeps, with the  *)
(* wake-up of its producer pending.                                       *)
C16_Witness ==
    /\ bpc = "sleeping"
    /\ wake
    /\ ~is_queue_empty(msg_queue)
    /\ Len(enqLog) > ndeq


(* main has issued the pthread_cond_signal of its cleanup. *)
TeardownSignalled == mpc \in {"destroy", "return", "exited"}

(* C17. Once the cleanup of main has signalled queue_cond, the broadcast  *)
(* thread is not asleep in pthread_cond_wait without a wake-up pending:   *)
(* it has been woken and goes on to leave its loop.                       *)
C17_ShutdownWakesBroadcast ==
    (TeardownSignalled /\ bpc = "sleeping") => wake

(* A handler is between its registration and the close of its socket. *)
InFlight(c) ==
    pc[c] \in {"send_ok", "join_lock", "join_send", "loop_top", "reading",
               "enqueue", "leave_lock", "leave_send", "remove"}

(* main has passed close(server_fd). *)
ListenerClosed == mpc \in {"destroy", "return", "exited"}

(* C18. When main has closed the listening socket, no handler is still    *)
(* between its registration and the close of its connection.              *)
C18_ListenerClosedAfterHandlers ==
    ListenerClosed => \A c \in Conns : ~InFlight(c)

(* Handler c has not returned yet. *)
Running(c) == pc[c] \notin {"unborn", "unhandled", "done"}

(* C20. The entry of a connection whose handler is still running leaves   *)
(* the registry only by the remove_client call of that handler.           *)
C20_OnlyOwnerRemoves ==
    [][\A c \in Conns :
         (c \in Registered /\ Running(c) /\ c \notin Registered')
             => (pc[c] = "remove" /\ pc'[c] = "done")]_vars


(***************************************************************************)
(* Notifications, refusals and the frames of an authenticated client       *)
(***************************************************************************)

JoinFrame(c) == format_notification(Take(username[c] \o JOINED, BUFFER_SIZE - 1))

IsNotifyFrame(f) == Take(f, Len(MSG_TYPE_NOTIFY) + 1) = MSG_TYPE_NOTIFY \o <<":">>

(* Handler c takes a step of the send loop of its join notification. *)
JoinStep(c) == pc[c] = "join_send" /\ (pc'[c] # pc[c] \/ ni'[c] # ni[c])

C22_JoinAnnouncedToAll ==
    [][\A c \in Conns :
          (pc[c] = "join_send" /\ pc'[c] = "loop_top")
          => \A d \in Registered : JoinFrame(c) \in out[d]]_vars


(* C23. A client that has joined has received the join notification of    *)
(* every client that joined before it and is still connected.             *)
C23_NewcomerSeesEarlierJoin ==
    \A i \in Live : \A j \in Live :
        LET early == clients[i].socket_fd
            late == clients[j].socket_fd
        IN  (i < j /\ early \in Conns /\ late \in Conns
               /\ pc[early] \in {"loop_top", "reading"}
               /\ pc[late] \in {"loop_top", "reading"})
            => JoinFrame(early) \in out[late]


(* Handler c ends the handshake with the one response r, closes the      *)
(* connection and returns.                                                *)
Refused(c, r) ==
    /\ pc'[c] = "done"
    /\ out[c] = {}
    /\ out'[c] = {r}
    /\ sock'[c] = "closed"

(* C24. A handshake fails at the first check that fails, in the order    *)
(* frame parse and type, username validation, duplicate username,        *)
(* registry capacity; the handler writes the one response of that check  *)
(* and nothing else, closes the connection and returns, and a handler    *)
(* that returned never runs again.  A check that passes writes nothing.  *)
C24_FirstFailingCheckAnswers ==
    [][\A c \in Conns :
          /\ (pc[c] = "auth_read" /\ pc'[c] # pc[c] /\ HasInput(c))
             => LET p == parse_message(Input(c))
                IN  IF p.rc # 0 \/ p.msg.type # MSG_TYPE_AUTH
                    THEN Refused(c, format_error_message(INVALID_AUTH_FORMAT))
                    ELSE IF ~validate_username(p.msg.sender)
                    THEN Refused(c, Line(AUTH_FAILED_INVALID))
                    ELSE pc'[c] = "check_name" /\ out'[c] = {}
          /\ (pc[c] = "check_name" /\ pc'[c] # pc[c])
             => IF \E i \in Live : clients[i].username = hmsg[c].sender
                THEN Refused(c, Line(AUTH_FAILED))
                ELSE pc'[c] = "add" /\ out'[c] = {}
          /\ (pc[c] = "add" /\ pc'[c] # pc[c])
             => IF client_count >= MAX_CLIENTS
                THEN Refused(c, Line(SERVER_FULL))
                ELSE pc'[c] = "send_ok" /\ out'[c] = {}
          /\ pc[c] = "done" => (pc'[c] = "done" /\ out'[c] = out[c])]_vars

(* One handshake was refused for its frame and another for its username. *)
C24_Witness ==
    \E c \in Conns : \E d \in Conns \ {c} :
        /\ pc[c] = "done" /\ pc[d] = "done"
        /\ out[c] = {format_error_message(INVALID_AUTH_FORMAT)}
        /\ out[d] = {Line(AUTH_FAILED_INVALID)}
        /\ sock[c] = "closed" /\ sock[d] = "closed"


(* C25. Every registry entry belongs to a connection whose handler has    *)
(* passed add_client and has not yet run remove_client: a connection that *)
(* is not accepted yet, is still in the handshake, was refused or has     *)
(* been cleaned up has no entry.                                          *)
C25_EntryOnlyWhileAuthenticated ==
    \A i \in Live :
        /\ clients[i].socket_fd \in Conns
        /\ InFlight(clients[i].socket_fd)

(* One client is registered, a second one has joined and left, and a     *)
(* third one was refused.                                                 *)
C25_Witness ==
    \E c \in Conns : \E d \in Conns \ {c} : \E e \in Conns \ {c, d} :
        /\ c \in Registered
        /\ pc[d] = "done" /\ Line(AUTH_OK) \in out[d] /\ d \notin Registered
        /\ pc[e] = "done" /\ out[e] \in {{r} : r \in Refusals} /\ e \notin Registered


(* Connection c has been through a successful handshake: its first frame *)
(* was an AUTH frame with a valid username, which the handler keeps, and  *)
(* it was sent AUTH_OK.                                                   *)
Authenticated(c) ==
    /\ nframes[c] >= 1
    /\ parse_message(scn.script[c][1]).rc = 0
    /\ parse_message(scn.script[c][1]).msg.type = MSG_TYPE_AUTH
    /\ validate_username(AskedName(c))
    /\ username[c] = AskedName(c)
    /\ Line(AUTH_OK) \in out[c]

(* The first frame of connection c is a well-formed chat frame. *)
ChatComesFirst(c) ==
    /\ Len(scn.script[c]) >= 1
    /\ parse_message(scn.script[c][1]).rc = 0
    /\ parse_message(scn.script[c][1]).msg.type = MSG_TYPE_MESSAGE

(* C26. The message queue changes by an enqueue only in the step of a     *)
(* handler whose connection has authenticated; a connection whose first   *)
(* frame is a chat frame gets the error frame and is closed, with the     *)
(* queue and every other connection untouched.                            *)
C26_OnlyAuthenticatedEnqueue ==
    [][/\ (enqLog' # enqLog \/ msg_queue'.count > msg_queue.count)
          => /\ Len(enqLog') = Len(enqLog) + 1
             /\ msg_queue'.count = msg_queue.count + 1
             /\ LET c == enqLog'[Len(enqLog')].from
                IN  /\ pc[c] = "enqueue" /\ pc'[c] = "loop_top"
                    /\ Authenticated(c)
       /\ \A c \in Conns :
             (pc[c] = "auth_read" /\ pc'[c] # pc[c] /\ ChatComesFirst(c))
             => /\ Refused(c, format_error_message(INVALID_AUTH_FORMAT))
                /\ msg_queue' = msg_queue /\ enqLog' = enqLog
                /\ \A d \in Conns \ {c} : out'[d] = out[d]]_vars

(* A connection that began with a chat frame has been refused while a    *)
(* client is registered, and the queue has stayed empty.                  *)
C26_Witness ==
    \E c \in Conns :
        /\ ChatComesFirst(c)
        /\ pc[c] = "done"
        /\ out[c] = {format_error_message(INVALID_AUTH_FORMAT)}
        /\ client_count >= 1
        /\ enqLog = <<>> /\ is_queue_empty(msg_queue)
        /\ \A d \in Conns : \A f \in out[d] : ~IsChatFrame(f)


(* The k-th frame of connection c is a well-formed chat frame. *)
ChatFrameAt(c, k) ==
    /\ parse_message(scn.script[c][k]).rc = 0
    /\ parse_message(scn.script[c][k]).msg.type = MSG_TYPE_MESSAGE

(* C27. A handler whose enqueue_message finds the queue full drops the    *)
(* message in that one step: the queue, the registry and the pending      *)
(* wake-up are as before, nothing is logged as enqueued, nothing is       *)
(* written, and the handler is back at the top of its receive loop.       *)
C27_FullQueueDropsOne ==
    [][\A c \in Conns :
          (pc[c] = "enqueue" /\ pc'[c] # pc[c] /\ is_queue_full(msg_queue))
          => /\ msg_queue' = msg_queue
             /\ clients' = clients /\ client_count' = client_count
             /\ wake' = wake
             /\ enqLog' = enqLog /\ ndrop' = ndrop + 1
             /\ out' = out /\ sock' = sock
             /\ pc'[c] = "loop_top"
             /\ queue_mutex' = queue_mutex]_vars

(* A message of a client was dropped at a full queue and its handler,     *)
(* still registered, is back in its receive loop.                         *)
C27_Witness ==
    \E c \in Registered :
        /\ ndrop >= 1
        /\ is_queue_full(msg_queue)
        /\ pc[c] \in {"loop_top", "reading"}
        /\ Cardinality({j \in 1..Len(enqLog) : enqLog[j].from = c})
              < Cardinality({j \in 2..nframes[c] : ChatFrameAt(c, j)})


(* The frame is one the receive loop passes over: it does not parse, or   *)
(* its type is neither MSG nor DISCONNECT.                                *)
Ignored(f) ==
    \/ parse_message(f).rc # 0
    \/ parse_message(f).msg.type \notin {MSG_TYPE_MESSAGE, MSG_TYPE_DISCONNECT}

(* C28. When the receive loop of an authenticated client reads a frame    *)
(* that does not parse, or whose type is neither MSG nor DISCONNECT (a    *)
(* second AUTH included), the registry, the queue, the username and the   *)
(* connection are as before, nothing is written, and the handler is back  *)
(* at the top of its receive loop.                                        *)
C28_IgnoredFrameChangesNothing ==
    [][\A c \in Conns :
          (pc[c] = "reading" /\ pc'[c] # pc[c] /\ HasInput(c) /\ Ignored(Input(c)))
          => /\ clients' = clients /\ client_count' = client_count
             /\ msg_queue' = msg_queue /\ enqLog' = enqLog /\ wake' = wake
             /\ username' = username /\ hmsg' = hmsg
             /\ out' = out /\ sock' = sock
             /\ pc'[c] = "loop_top"
             /\ nframes'[c] = nframes[c] + 1]_vars

(* alice has sent a frame that does not parse, a frame of an unknown      *)
(* type and a second AUTH under another name, and is still registered as  *)
(* alice and reading.                                                     *)
C28_Witness ==
    \E c \in Registered :
        /\ pc[c] = "reading"
        /\ username[c] = alice
        /\ \E i \in Live : clients[i].socket_fd = c /\ clients[i].username = alice
        /\ \E k \in 2..nframes[c] : parse_message(scn.script[c][k]).rc # 0
        /\ \E k \in 2..nframes[c] :
              /\ parse_message(scn.script[c][k]).rc = 0
              /\ parse_message(scn.script[c][k]).msg.type = MSG_TYPE_AUTH
              /\ parse_message(scn.script[c][k]).msg.sender = bob


(* C29. The queue loses a message only by the dequeue_message call of the *)
(* broadcast thread, made while the server runs and the queue is not      *)
(* empty, so the call never returns the empty result; and a check that    *)
(* finds the queue empty while the server runs sends the thread into      *)
(* pthread_cond_wait, where it releases queue_mutex and stays, touching   *)
(* nothing, until it is woken and checks again.  A wake-up becomes        *)
(* pending only by the signal of an enqueue or of the cleanup of main.    *)
C29_DequeueOnlyNonEmpty ==
    [][/\ msg_queue'.count < msg_queue.count
          => /\ bpc = "after_wait" /\ bpc' = "lock_c"
             /\ server_running /\ ~is_queue_empty(msg_queue)
             /\ ndeq' = ndeq + 1
       /\ (bpc = "after_wait" /\ bpc' # bpc)
          => \/ bpc' = "exit" /\ ~server_running /\ msg_queue' = msg_queue
             \/ bpc' = "lock_c" /\ ~is_queue_empty(msg_queue)
       /\ (bpc = "lock_q" /\ bpc' # bpc /\ is_queue_empty(msg_queue) /\ server_running)
          => bpc' = "cond_wait"
       /\ (bpc = "cond_wait" /\ bpc' # bpc)
          => bpc' = "sleeping" /\ queue_mutex' # BcastT /\ msg_queue' = msg_queue
       /\ (bpc = "sleeping" /\ bpc' # bpc)
          => bpc' = "lock_q" /\ msg_queue' = msg_queue /\ ndeq' = ndeq
       /\ (~wake /\ wake')
          => /\ bpc = "sleeping"
             /\ \/ \E c \in Conns : pc[c] = "enqueue" /\ Len(enqLog') = Len(enqLog) + 1
                \/ mpc = "sweep" /\ mpc' = "destroy"]_vars

(* The broadcast thread has delivered a message and now sleeps on the     *)
(* empty queue of the running server, with no wake-up pending.            *)
C29_Witness ==
    /\ bpc = "sleeping"
    /\ ~wake
    /\ is_queue_empty(msg_queue)
    /\ server_running
    /\ ndeq >= 1
    /\ queue_mutex = FreeM


(* The fan-out is at an entry whose connection the peer has reset: the    *)
(* send on it fails.                                                      *)
FanoutWriteFails ==
    /\ bpc = "fanout"
    /\ bi < client_count
    /\ clients[bi].socket_fd \in Conns
    /\ sock[clients[bi].socket_fd] = "reset"

(* C30. A write of the fan-out that fails does not keep the message from  *)
(* the other clients: the server is never brought down at a failing write *)
(* while an entry after it has not been written the message.              *)
C30_FailedWriteSparesOthers ==
    ~(/\ mpc = "killed"
      /\ FanoutWriteFails
      /\ \E j \in (bi + 1)..(client_count - 1) :
            format_chat_message(bmsg.sender, bmsg.content)
               \notin out[clients[j].socket_fd])


(***************************************************************************)
(* Order of frames, sockets, teardown and the two containers               *)
(***************************************************************************)

(* Handler c writes its leave notification to the connection of d. *)
LeaveWrittenTo(c, d) ==
    /\ pc[c] = "leave_send"
    /\ ni[c] < client_count /\ ni'[c] = ni[c] + 1
    /\ clients[ni[c]].socket_fd = d

(* C31. A client's chat messages come before its leave notification:      *)
(* when the handler of a leaving client writes NOTIFY:<user> left the     *)
(* chat to another client, every message it enqueued has been dequeued    *)
(* and its fan-out has ended.                                             *)
C31_MessageBeforeLeave ==
    [][\A c \in Conns : \A d \in Conns \ {c} :
          LeaveWrittenTo(c, d)
          => \A k \in 1..Len(enqLog) : enqLog[k].from = c => Delivered(k)]_vars


(* C32. A leaving handler has taken its entry out of the registry before  *)
(* it sends the leave notification, and never writes that notification    *)
(* to its own connection.                                                 *)
C32_UnregisterBeforeLeaveNotice ==
    [][\A c \in Conns :
          (pc[c] = "leave_send" /\ (pc'[c] # pc[c] \/ ni'[c] # ni[c]))
          => /\ c \notin Registered
             /\ ~LeaveWrittenTo(c, c)]_vars


(* C33. AUTH_OK is the first frame on the connection of a client that     *)
(* authenticates: as long as its handler has not sent AUTH_OK, nothing    *)
(* has been written to the connection.                                    *)
C33_AuthOkComesFirst ==
    \A c \in Conns :
        pc[c] \in {"auth_read", "check_name", "add", "send_ok"} => out[c] = {}


(* C34. The socket of a connection is closed by the step in which its     *)
(* own handler returns, and by no other step; and the close of a          *)
(* returning handler is the first close of that socket.                   *)
C34_ClosedOnceByOwner ==
    [][\A c \in Conns :
          /\ (sock[c] # "closed" /\ sock'[c] = "closed")
             => (pc[c] # "done" /\ pc'[c] = "done")
          /\ (pc[c] # "done" /\ pc'[c] = "done")
             => sock[c] # "closed"]_vars


(* A handler or the broadcast thread takes a step that locks or unlocks   *)
(* clients_mutex or queue_mutex, or waits on or signals queue_cond.       *)
SyncStep ==
    \/ \E c \in Conns :
          /\ pc[c] \in {"check_name", "add", "join_lock", "leave_lock", "enqueue", "remove"}
          /\ pc'[c] # pc[c]
    \/ \E c \in Conns :
          /\ pc[c] \in {"join_send", "leave_send"}
          /\ pc'[c] \notin {"join_send", "leave_send"}
    \/ /\ bpc \in {"lock_q", "cond_wait", "sleeping", "after_wait", "lock_c"}
       /\ bpc' # bpc
    \/ bpc = "fanout" /\ bpc' = "top"

(* main has run pthread_mutex_destroy and pthread_cond_destroy and has    *)
(* not returned yet.                                                      *)
AfterDestroy == mpc = "return"

(* C35. Once main has destroyed clients_mutex, queue_mutex and queue_cond *)
(* no thread locks, unlocks, waits or signals any more; and when main     *)
(* destroys them, both mutexes are free and nobody waits on the           *)
(* condition variable.                                                    *)
C35_NoUseAfterDestroy ==
    [][/\ AfterDestroy => ~SyncStep
       /\ (mpc = "destroy" /\ mpc' = "return")
          => /\ clients_mutex = FreeM /\ queue_mutex = FreeM
             /\ bpc \notin {"cond_wait", "sleeping"}]_vars


(* accept returns connection c in this step. *)
Accepted(c) == pc[c] = "unborn" /\ pc'[c] # "unborn"

(* C36. A connection whose accept returns when server_running is already *)
(* cleared gets no handler: main leaves its loop, and the connection is   *)
(* never read, never written to and never registered.  A connection gets  *)
(* a handler only when its accept returns with the flag still set.        *)
C36_NoHandlerAfterShutdown ==
    [][\A c \in Conns :
          /\ Accepted(c)
             => /\ pc'[c] = IF server_running THEN "auth_read" ELSE "unhandled"
                /\ ~server_running => mpc' = "sweep"
          /\ pc[c] = "unhandled"
             => /\ pc'[c] = "unhandled"
                /\ c \notin Registered /\ c \notin Registered'
                /\ out'[c] = {} /\ nframes'[c] = 0 /\ username'[c] = <<>>]_vars

(* A connection was accepted after SIGINT and has been left without a     *)
(* handler, while main has gone through its cleanup.                      *)
C36_Witness ==
    \E c \in Conns :
        /\ pc[c] = "unhandled"
        /\ ~server_running
        /\ sock[c] = "open"
        /\ mpc \in {"destroy", "return", "exited"}


(* C37. After any sequence of enqueue_message and dequeue_message calls   *)
(* head and tail are indices of the buffer, count is between 0 and        *)
(* QUEUE_SIZE, head is tail + count modulo QUEUE_SIZE, and a call that    *)
(* returned -1 has left the queue exactly as it was.                      *)
C37_CircularBufferShape ==
    /\ msg_queue.head \in 0..(QUEUE_SIZE - 1)
    /\ msg_queue.tail \in 0..(QUEUE_SIZE - 1)
    /\ msg_queue.count \in 0..QUEUE_SIZE
    /\ msg_queue.head = (msg_queue.tail + msg_queue.count) % QUEUE_SIZE
    /\ (probe.op \in {"enqueue", "dequeue"} /\ probe.rc # 0)
       => /\ probe.rc = -1
          /\ msg_queue = probe.prev

(* head and tail have gone round the buffer, the queue is full again and  *)
(* the call made last was refused.                                        *)
C37_Witness ==
    /\ probe.op = "enqueue"
    /\ probe.rc = -1
    /\ msg_queue.count = QUEUE_SIZE
    /\ msg_queue.tail = 1
    /\ msg_queue.head = 1
    /\ Len(probe.outs) >= 1


(* The entries of a registry in use, in array order. *)
Entries(reg) == [k \in 1..reg.client_count |-> reg.clients[k - 1]]

=============================================================================
